---- MODULE Spec2Model ----
(***************************************************************************)
(* Acme Product Importer: the asynchronous CSV import pipeline.            *)
(*                                                                         *)
(* The model covers the upload handler, the in-process orchestrator        *)
(* (_process_csv_async), the progress query (get_task_status), the cancel  *)
(* endpoint, the product endpoints (create, update, toggle), the product   *)
(* table with its ON CONFLICT upsert, the ImportJob table and the Redis    *)
(* key space (task:<id>, cancel:<id>, products:..).                        *)
(*                                                                         *)
(* Granularity: one action per database transaction or Redis command of    *)
(* the orchestrator; the synchronous handlers run in worker threads, so    *)
(* they interleave with the orchestrator between any two of those.         *)
(* Text is modelled as sequences of one-character strings so that          *)
(* str.strip and str.upper are computed, not assumed.                      *)
(***************************************************************************)
EXTENDS Integers, Sequences, FiniteSets, TLC

(***************************************************************************)
(* Bounds of the model.                                                    *)
(***************************************************************************)
\* longest uploaded file, in data rows
MaxRows == 3

\* rows per chunk: 1000 in the source (main.py:546), scaled down so that a
\* file of MaxRows rows spans several chunks
chunk_size == 2

\* chunks between two throttled progress publications (main.py:614 tests
\* chunk_start % 5000 with chunks of 1000 rows)
publish_every_chunks == 5

publish_period == publish_every_chunks * chunk_size

JobIds == {1, 2}

(***************************************************************************)
(* Text: str.strip() and str.upper()                                       *)
(***************************************************************************)
IsSpace(c) == c = " "

UpperChar(c) ==
  CASE c = "a" -> "A"
    [] c = "b" -> "B"
    [] c = "c" -> "C"
    [] OTHER -> c

upper(s) == [i \in 1..Len(s) |-> UpperChar(s[i])]

RECURSIVE lstrip(_)
lstrip(s) ==
  IF s = <<>> THEN s
  ELSE IF IsSpace(Head(s)) THEN lstrip(Tail(s)) ELSE s

RECURSIVE rstrip(_)
rstrip(s) ==
  IF s = <<>> THEN s
  ELSE IF IsSpace(s[Len(s)]) THEN rstrip(SubSeq(s, 1, Len(s) - 1)) ELSE s

strip(s) == rstrip(lstrip(s))

\* str.endswith
endswith(s, suffix) ==
  /\ Len(s) >= Len(suffix)
  /\ SubSeq(s, Len(s) - Len(suffix) + 1, Len(s)) = suffix

\* dict.get(key, default)
Get(d, k, default) == IF k \in DOMAIN d THEN d[k] ELSE default

(***************************************************************************)
(* Inputs: file names and parsed CSV rows (what csv.DictReader yields for  *)
(* the header name,sku,description).                                       *)
(***************************************************************************)
CsvName == <<"f", ".", "c", "s", "v">>
TxtName == <<"f", ".", "t", "x", "t">>
BareName == <<"c", "s", "v">>
FileNames == {CsvName, TxtName, BareName}

Row(n, s, d) == [name |-> n, sku |-> s, description |-> d]

RowSet ==
  { Row(<<"X">>, <<"a">>, <<"p">>),
    Row(<<"Y">>, <<" ", "A">>, <<"q", " ">>),
    Row(<<"Z">>, <<"b">>, <<>>),
    Row(<<" ">>, <<"c">>, <<"p">>),
    Row(<<"X">>, <<" ">>, <<"q">>) }

\* the None that csv.DictReader stores for a field missing from a row with
\* fewer fields than the header
NoField == <<"None">>

\* rows cut short after the sku and after the name
ShortRows == {Row(<<"X">>, <<"a">>, NoField), Row(<<"Y">>, NoField, NoField)}

RECURSIVE SeqsUpTo(_, _)
SeqsUpTo(S, n) ==
  IF n = 0 THEN {<<>>}
  ELSE LET shorter == SeqsUpTo(S, n - 1)
       IN shorter \cup {Append(q, x) : q \in {r \in shorter : Len(r) = n - 1}, x \in S}

Files == SeqsUpTo(RowSet, MaxRows)

ShortFiles == SeqsUpTo(RowSet \cup ShortRows, MaxRows)

(***************************************************************************)
(* Values kept in Redis and in the tables                                  *)
(***************************************************************************)
None == [none |-> TRUE]

TaskKeyShared(j) == <<"task", 1>>
TaskKey(j) == <<"task", j>>
CancelKey(j) == <<"cancel", j>>
ProductsKey == <<"products">>
\* key of a Celery task's state in the result backend (the same Redis)
MetaKey(j) == <<"celery-task-meta", j>>
RedisKeys ==
  {TaskKey(j) : j \in JobIds} \cup {CancelKey(j) : j \in JobIds} \cup {ProductsKey}
    \cup {MetaKey(j) : j \in JobIds}

Terminal == {"SUCCESS", "FAILURE", "CANCELLED"}

\* the column defaults of a freshly inserted ImportJob row
NewImportJob == [status |-> "PENDING", records_processed |-> 0, total_records |-> 0]

VARIABLES
  pc,             \* per job: position of the upload request / orchestrator task
  filename,       \* per job: name of the uploaded file
  csv_content,    \* per job: rows of the uploaded file
  chunk_start,    \* per job: loop variable of the orchestrator
  imported_count, \* per job: running imported count of the orchestrator
  error,          \* per job: the exception caught by the orchestrator
  import_jobs,    \* ImportJob table: job id -> row or None
  products,       \* products table: sku -> row
  next_id,        \* products id sequence
  now,            \* database clock (NOW())
  redis,          \* Redis key space: key -> value or None
  redis_up,       \* whether Redis commands succeed
  revoked,        \* task ids revoked through the Celery control channel
  poll_pc,        \* per job: position of the polling client's request
  poll_status,    \* per job: snapshot read by the request in flight
  poll_resp,      \* per job: last response returned to the polling client
  upserts,        \* per job: log of the batches committed, with their commit time
  marker_at,      \* per job: chunk in flight when the cancel marker was written
  published,      \* per job: log of the snapshots handed to RedisCache.set
  listing         \* per get_products call in flight: position, query result, response

vars == <<pc, filename, csv_content, chunk_start, imported_count, error,
          import_jobs, products, next_id, now, redis, redis_up, revoked,
          poll_pc, poll_status, poll_resp, upserts, marker_at, published, listing>>

orch_vars == <<pc, chunk_start, imported_count, error>>
file_vars == <<filename, csv_content>>
poll_vars == <<poll_pc, poll_status, poll_resp>>
db_product_vars == <<products, next_id, now>>

(***************************************************************************)
(* RedisCache (redis_client.py): errors are swallowed                      *)
(***************************************************************************)
\* RedisCache.set: the key space after set(key, value, ttl)
RedisSet(key, value) == IF redis_up THEN [redis EXCEPT ![key] = value] ELSE redis

\* RedisCache.get: the decoded value, None on a miss or an error
RedisGet(key) == IF redis_up THEN redis[key] ELSE None

\* RedisCache.set(f"task:{task_id}", snapshot) by the task of job j
Publish(j, snapshot) ==
  /\ redis' = RedisSet(TaskKey(j), snapshot)
  /\ published' = [published EXCEPT ![j] = Append(@, snapshot)]

\* _clear_products_cache on a key space r
ClearProductsCache(r) == IF redis_up THEN [r EXCEPT ![ProductsKey] = None] ELSE r

(***************************************************************************)
(* GET /api/products with the default arguments: answer from the cached    *)
(* listing when Redis has one, else query the table, cache the result for  *)
(* 300 s and return it. The handler runs in the threadpool, so other       *)
(* requests and the import run between its cache read, its query and its   *)
(* cache write.                                                            *)
(***************************************************************************)
Readers == {1, 2}

\* a call that is not in flight; since is the number of chunks of job 1 that
\* were committed and invalidated when the call started
IdleCall == [pc |-> "idle", data |-> None, resp |-> None, since |-> 0]

\* batches of job 1 whose commit and cache invalidation are both done
Invalidated ==
  Cardinality({b \in 1..Len(upserts[1]) : upserts[1][b].chunk_start < chunk_start[1]})

\* cached_result = RedisCache.get(cache_key); an empty list is falsy
get_products_read(r) ==
  /\ listing[r].pc = "idle"
  /\ LET cached_result == RedisGet(ProductsKey)
     IN IF cached_result # None /\ DOMAIN cached_result.products_data # {}
        THEN listing' = [listing EXCEPT ![r] = [pc |-> "idle", data |-> None,
                                                resp |-> cached_result,
                                                since |-> Invalidated]]
        ELSE listing' = [listing EXCEPT ![r] = [pc |-> "query", data |-> None,
                                                resp |-> None,
                                                since |-> Invalidated]]
  /\ UNCHANGED <<orch_vars, file_vars, import_jobs, db_product_vars, redis, redis_up,
                 revoked, poll_vars, upserts, marker_at, published>>

\* products = query.offset(skip).limit(limit).all()
get_products_query(r) ==
  /\ listing[r].pc = "query"
  /\ listing' = [listing EXCEPT ![r].pc = "cache",
                                ![r].data = [products_data |-> products]]
  /\ UNCHANGED <<orch_vars, file_vars, import_jobs, db_product_vars, redis, redis_up,
                 revoked, poll_vars, upserts, marker_at, published>>

\* RedisCache.set(cache_key, products_data, 300); return products_data
get_products_finish(r) ==
  /\ listing[r].pc = "cache"
  /\ redis' = RedisSet(ProductsKey, listing[r].data)
  /\ listing' = [listing EXCEPT ![r].pc = "idle",
                                ![r].resp = listing[r].data,
                                ![r].data = None]
  /\ UNCHANGED <<orch_vars, file_vars, import_jobs, db_product_vars, redis_up,
                 revoked, poll_vars, upserts, marker_at, published>>

get_products(r) ==
  \/ get_products_read(r)
  \/ get_products_query(r)
  \/ get_products_finish(r)

(***************************************************************************)
(* The chunk loop body of _process_csv_async                               *)
(***************************************************************************)
Min(a, b) == IF a <= b THEN a ELSE b

rows(j) == csv_content[j]
total_rows(j) == Len(rows(j))

\* variant of the chunk bound that takes one row per iteration
chunk_end_one_row(j) == Min(chunk_start[j] + 1, total_rows(j))

chunk_end(j) == Min(chunk_start[j] + chunk_size, total_rows(j))
chunk(j) == SubSeq(rows(j), chunk_start[j] + 1, chunk_end(j))

\* the for-loop over the rows of a chunk: acc is valid_products, seen is seen_skus
RECURSIVE ValidProductsFrom(_, _, _, _)
ValidProductsFrom(ch, i, acc, seen) ==
  IF i > Len(ch) THEN acc
  ELSE LET name == strip(Get(ch[i], "name", <<>>))
           sku == strip(Get(ch[i], "sku", <<>>))
           description == strip(Get(ch[i], "description", <<>>))
           sku_upper == upper(sku)
       IN IF name # <<>> /\ sku # <<>> /\ sku_upper \notin seen
          THEN ValidProductsFrom(ch, i + 1,
                 Append(acc, [name |-> name, sku |-> sku_upper, description |-> description]),
                 seen \cup {sku_upper})
          ELSE ValidProductsFrom(ch, i + 1, acc, seen)

\* variant of the loop in which a later row replaces an earlier one with its key
RECURSIVE LastWinsFrom(_, _, _)
LastWinsFrom(ch, i, acc) ==
  IF i > Len(ch) THEN acc
  ELSE LET name == strip(Get(ch[i], "name", <<>>))
           sku == strip(Get(ch[i], "sku", <<>>))
           description == strip(Get(ch[i], "description", <<>>))
           sku_upper == upper(sku)
           p == [name |-> name, sku |-> sku_upper, description |-> description]
       IN IF name # <<>> /\ sku # <<>>
          THEN IF \E n \in 1..Len(acc) : acc[n].sku = sku_upper
               THEN LastWinsFrom(ch, i + 1,
                      [n \in 1..Len(acc) |-> IF acc[n].sku = sku_upper THEN p ELSE acc[n]])
               ELSE LastWinsFrom(ch, i + 1, Append(acc, p))
          ELSE LastWinsFrom(ch, i + 1, acc)

valid_products_last_wins(ch) == LastWinsFrom(ch, 1, <<>>)

valid_products(ch) == ValidProductsFrom(ch, 1, <<>>, {})

\* variant of the statement that replaces a conflicting row by a fresh one
UpsertRowReplace(tbl, nid, p, t) ==
  [tbl |-> [k \in DOMAIN tbl \cup {p.sku} |->
              IF k = p.sku
              THEN [id |-> nid, name |-> p.name, sku |-> p.sku,
                    description |-> p.description, active |-> TRUE,
                    created_at |-> t, updated_at |-> t]
              ELSE tbl[k]],
   nid |-> nid + 1]

\* one row of INSERT ... ON CONFLICT (sku) DO UPDATE, executed at time t
UpsertRow(tbl, nid, p, t) ==
  IF p.sku \in DOMAIN tbl
  THEN [tbl |-> [tbl EXCEPT ![p.sku] = [@ EXCEPT !.name = p.name,
                                                 !.description = p.description,
                                                 !.updated_at = t]],
        nid |-> nid]
  ELSE [tbl |-> [k \in DOMAIN tbl \cup {p.sku} |->
                   IF k = p.sku
                   THEN [id |-> nid, name |-> p.name, sku |-> p.sku,
                         description |-> p.description, active |-> TRUE,
                         created_at |-> t, updated_at |-> t]
                   ELSE tbl[k]],
        nid |-> nid + 1]

\* the whole statement: the VALUES list applied in order
RECURSIVE UpsertFrom(_, _, _, _, _)
UpsertFrom(tbl, nid, batch, i, t) ==
  IF i > Len(batch) THEN [tbl |-> tbl, nid |-> nid]
  ELSE LET r == UpsertRow(tbl, nid, batch[i], t)
       IN UpsertFrom(r.tbl, r.nid, batch, i + 1, t)

\* variant of the statement whose DO UPDATE also sets active = true
UpsertReactivating(tbl, nid, batch, t) ==
  LET r == UpsertFrom(tbl, nid, batch, 1, t)
  IN [tbl |-> [k \in DOMAIN r.tbl |->
                 IF \E n \in 1..Len(batch) : batch[n].sku = k
                 THEN [r.tbl[k] EXCEPT !.active = TRUE]
                 ELSE r.tbl[k]],
      nid |-> r.nid]

Upsert(tbl, nid, batch, t) == UpsertFrom(tbl, nid, batch, 1, t)

(***************************************************************************)
(* Initial state: nothing uploaded, empty tables, empty Redis              *)
(***************************************************************************)
Init ==
  /\ pc = [j \in JobIds |-> "new"]
  /\ filename = [j \in JobIds |-> <<>>]
  /\ csv_content = [j \in JobIds |-> <<>>]
  /\ chunk_start = [j \in JobIds |-> 0]
  /\ imported_count = [j \in JobIds |-> 0]
  /\ error = [j \in JobIds |-> None]
  /\ import_jobs = [j \in JobIds |-> None]
  /\ products = [k \in {} |-> None]
  /\ next_id = 1
  /\ now = 0
  /\ redis = [k \in RedisKeys |-> None]
  /\ redis_up = TRUE
  /\ revoked = {}
  /\ poll_pc = [j \in JobIds |-> "idle"]
  /\ poll_status = [j \in JobIds |-> None]
  /\ poll_resp = [j \in JobIds |-> None]
  /\ upserts = [j \in JobIds |-> <<>>]
  /\ marker_at = [j \in JobIds |-> -1]
  /\ published = [j \in JobIds |-> <<>>]
  /\ listing = [r \in Readers |-> IdleCall]

(***************************************************************************)
(* POST /api/upload                                                        *)
(***************************************************************************)
\* variant of the handler that stores the job before looking at the file name
upload_csv_job_first(j, fname, content) ==
  /\ pc[j] = "new"
  /\ filename' = [filename EXCEPT ![j] = fname]
  /\ import_jobs' = [import_jobs EXCEPT ![j] = NewImportJob]
  /\ IF ~endswith(fname, <<".", "c", "s", "v">>)
     THEN /\ pc' = [pc EXCEPT ![j] = "rejected"]
          /\ UNCHANGED csv_content
     ELSE /\ csv_content' = [csv_content EXCEPT ![j] = content]
          /\ pc' = [pc EXCEPT ![j] = "start"]
  /\ UNCHANGED <<chunk_start, imported_count, error, db_product_vars, redis,
                 redis_up, revoked, poll_vars, upserts, marker_at, published, listing>>

upload_csv(j, fname, content) ==
  /\ pc[j] = "new"
  /\ filename' = [filename EXCEPT ![j] = fname]
  /\ IF ~endswith(fname, <<".", "c", "s", "v">>)
     THEN /\ pc' = [pc EXCEPT ![j] = "rejected"]
          /\ UNCHANGED <<csv_content, import_jobs>>
     ELSE /\ csv_content' = [csv_content EXCEPT ![j] = content]
          /\ import_jobs' = [import_jobs EXCEPT ![j] = NewImportJob]
          /\ pc' = [pc EXCEPT ![j] = "start"]
  /\ UNCHANGED <<chunk_start, imported_count, error, db_product_vars, redis,
                 redis_up, revoked, poll_vars, upserts, marker_at, published, listing>>

(***************************************************************************)
(* _process_csv_async, one action per transaction or Redis command         *)
(***************************************************************************)
\* parse, then record the row count and flip the job to PROGRESS
ProcStart(j) ==
  /\ pc[j] = "start"
  /\ import_jobs' = IF import_jobs[j] # None
                    THEN [import_jobs EXCEPT ![j] = [@ EXCEPT !.total_records = total_rows(j),
                                                              !.status = "PROGRESS"]]
                    ELSE import_jobs
  /\ pc' = [pc EXCEPT ![j] = "init"]
  /\ UNCHANGED <<file_vars, chunk_start, imported_count, error, db_product_vars,
                 redis, redis_up, revoked, poll_vars, upserts, marker_at, published, listing>>

\* publish the initial snapshot
ProcInit(j) ==
  /\ pc[j] = "init"
  /\ Publish(j, [state |-> "PROGRESS", current |-> 0, total |-> total_rows(j)])
  /\ chunk_start' = [chunk_start EXCEPT ![j] = 0]
  /\ imported_count' = [imported_count EXCEPT ![j] = 0]
  /\ pc' = [pc EXCEPT ![j] = "loop"]
  /\ UNCHANGED <<file_vars, error, import_jobs, db_product_vars, redis_up, revoked,
                 poll_vars, upserts, marker_at, listing>>

\* variant of the loop head that never looks at the cancellation marker
ProcLoopUnchecked(j) ==
  /\ pc[j] = "loop"
  /\ pc' = [pc EXCEPT ![j] = IF chunk_start[j] >= total_rows(j) THEN "finalize" ELSE "chunk"]
  /\ UNCHANGED <<file_vars, chunk_start, imported_count, error, import_jobs,
                 db_product_vars, redis, redis_up, revoked, poll_vars, upserts, marker_at,
                 published, listing>>

\* loop head: end of range, or the cancellation check of the next chunk
ProcLoop(j) ==
  /\ pc[j] = "loop"
  /\ IF chunk_start[j] >= total_rows(j)
     THEN /\ pc' = [pc EXCEPT ![j] = "finalize"]
          /\ UNCHANGED <<redis, published>>
     ELSE IF RedisGet(CancelKey(j)) # None
     THEN /\ Publish(j, [state |-> "CANCELLED", current |-> chunk_start[j],
                         total |-> total_rows(j)])
          /\ pc' = [pc EXCEPT ![j] = "cancelled"]
     ELSE /\ pc' = [pc EXCEPT ![j] = "chunk"]
          /\ UNCHANGED <<redis, published>>
  /\ UNCHANGED <<file_vars, chunk_start, imported_count, error, import_jobs,
                 db_product_vars, redis_up, revoked, poll_vars, upserts, marker_at, listing>>

\* outcomes of db.execute + db.commit: done, an error raised before the
\* statement reaches the server (the session stays usable), or an error
\* raised by the server (the transaction is aborted and, as the handler never
\* rolls back, every later statement of the session fails)
WriteOutcomes == {"ok", "client_error", "server_error"}

\* row.get(field, '') returned None somewhere in the chunk: .strip() raises
\* AttributeError before any statement is built
StripRaises(ch) ==
  \E i \in 1..Len(ch) :
    \E f \in {"name", "sku", "description"} : Get(ch[i], f, <<>>) = NoField

\* dedupe the chunk and execute the batch upsert
ProcChunk(j, outcome) ==
  /\ pc[j] = "chunk"
  /\ LET batch == valid_products(chunk(j))
     IN IF StripRaises(chunk(j))
        THEN /\ outcome = "ok"
             /\ error' = [error EXCEPT ![j] = [message |-> "AttributeError",
                                                aborted |-> FALSE]]
             /\ pc' = [pc EXCEPT ![j] = "except"]
             /\ UNCHANGED <<chunk_start, imported_count, db_product_vars, upserts>>
        ELSE IF batch = <<>>
        THEN /\ outcome = "ok"
             /\ chunk_start' = [chunk_start EXCEPT ![j] = @ + chunk_size]
             /\ pc' = [pc EXCEPT ![j] = "loop"]
             /\ UNCHANGED <<imported_count, error, db_product_vars, upserts>>
        ELSE IF outcome = "ok"
        THEN LET r == Upsert(products, next_id, batch, now + 1)
             IN /\ products' = r.tbl
                /\ next_id' = r.nid
                /\ now' = now + 1
                /\ upserts' = [upserts EXCEPT ![j] = Append(@, [chunk_start |-> chunk_start[j],
                                                                 values |-> batch,
                                                                 at |-> now + 1])]
                /\ imported_count' = [imported_count EXCEPT ![j] = @ + Len(batch)]
                /\ pc' = [pc EXCEPT ![j] = "publish"]
                /\ UNCHANGED <<chunk_start, error>>
        ELSE /\ error' = [error EXCEPT ![j] = [message |-> "write failed",
                                                   aborted |-> outcome = "server_error"]]
             /\ pc' = [pc EXCEPT ![j] = "except"]
             /\ UNCHANGED <<chunk_start, imported_count, db_product_vars, upserts>>
  /\ UNCHANGED <<file_vars, import_jobs, redis, redis_up, revoked, poll_vars, marker_at,
                   published, listing>>

\* int(a / b * 100) for counts 0 <= a <= b <= 100. Python divides and
\* multiplies in binary64: on the pairs of RoundsBelow the product falls just
\* below the exact integer value and int() truncates it to one less
\* (29 / 50 * 100 is 57.99999999999999).
RoundsBelow == {<<29, 50>>, <<29, 100>>, <<57, 100>>, <<58, 100>>}

\* variant that takes the percentage of a chunk instead of the total
PercentOfChunk(a, b) == (a * 100) \div chunk_size

PercentOf(a, b) ==
  IF <<a, b>> \in RoundsBelow THEN (a * 100) \div b - 1 ELSE (a * 100) \div b

\* variant of the publication in which a Redis error is not swallowed
ProcPublishRaising(j) ==
  /\ pc[j] = "publish"
  /\ IF redis_up
     THEN /\ IF chunk_start[j] % publish_period = 0 \/ chunk_end(j) = total_rows(j)
             THEN Publish(j, [state |-> "PROGRESS",
                              current |-> chunk_end(j),
                              total |-> total_rows(j),
                              progress_percent |-> PercentOf(chunk_end(j), total_rows(j))])
             ELSE UNCHANGED <<redis, published>>
          /\ pc' = [pc EXCEPT ![j] = "clear"]
          /\ UNCHANGED error
     ELSE /\ error' = [error EXCEPT ![j] = [message |-> "redis error", aborted |-> FALSE]]
          /\ pc' = [pc EXCEPT ![j] = "except"]
          /\ UNCHANGED <<redis, published>>
  /\ UNCHANGED <<file_vars, chunk_start, imported_count, import_jobs,
                 db_product_vars, redis_up, revoked, poll_vars, upserts, marker_at, listing>>

\* throttled progress snapshot
ProcPublish(j) ==
  /\ pc[j] = "publish"
  /\ LET progress_percent == PercentOf(chunk_end(j), total_rows(j))
     IN IF chunk_start[j] % publish_period = 0 \/ chunk_end(j) = total_rows(j)
        THEN Publish(j, [state |-> "PROGRESS",
                         current |-> chunk_end(j),
                         total |-> total_rows(j),
                         progress_percent |-> progress_percent])
        ELSE UNCHANGED <<redis, published>>
  /\ pc' = [pc EXCEPT ![j] = "clear"]
  /\ UNCHANGED <<file_vars, chunk_start, imported_count, error, import_jobs,
                 db_product_vars, redis_up, revoked, poll_vars, upserts, marker_at, listing>>

\* invalidate the listing cache, yield, advance to the next chunk
ProcClear(j) ==
  /\ pc[j] = "clear"
  /\ redis' = ClearProductsCache(redis)
  /\ chunk_start' = [chunk_start EXCEPT ![j] = @ + chunk_size]
  /\ pc' = [pc EXCEPT ![j] = "loop"]
  /\ UNCHANGED <<file_vars, imported_count, error, import_jobs, db_product_vars,
                 redis_up, revoked, poll_vars, upserts, marker_at, published, listing>>

\* after the loop: mark the job SUCCESS with the imported count
ProcFinalize(j) ==
  /\ pc[j] = "finalize"
  /\ import_jobs' = IF import_jobs[j] # None
                    THEN [import_jobs EXCEPT ![j] = [@ EXCEPT !.status = "SUCCESS",
                                                              !.records_processed = imported_count[j]]]
                    ELSE import_jobs
  /\ pc' = [pc EXCEPT ![j] = "mark_success"]
  /\ UNCHANGED <<file_vars, chunk_start, imported_count, error, db_product_vars,
                 redis, redis_up, revoked, poll_vars, upserts, marker_at, published, listing>>

\* publish the terminal SUCCESS snapshot
ProcMarkSuccess(j) ==
  /\ pc[j] = "mark_success"
  /\ Publish(j, [state |-> "SUCCESS", current |-> total_rows(j),
                 total |-> total_rows(j), progress_percent |-> 100,
                 imported_count |-> imported_count[j]])
  /\ pc' = [pc EXCEPT ![j] = "succeeded"]
  /\ UNCHANGED <<file_vars, chunk_start, imported_count, error, import_jobs,
                 db_product_vars, redis_up, revoked, poll_vars, upserts, marker_at, listing>>

\* except branch: mark the job FAILURE. The handler queries the job on the
\* session of the failed statement: in an aborted transaction that query
\* raises, the exception leaves the task and nothing more is written.
ProcExcept(j) ==
  /\ pc[j] = "except"
  /\ IF error[j].aborted
     THEN /\ pc' = [pc EXCEPT ![j] = "crashed"]
          /\ UNCHANGED import_jobs
     ELSE /\ import_jobs' = IF import_jobs[j] # None
                            THEN [import_jobs EXCEPT ![j] = [@ EXCEPT !.status = "FAILURE"]]
                            ELSE import_jobs
          /\ pc' = [pc EXCEPT ![j] = "mark_failure"]
  /\ UNCHANGED <<file_vars, chunk_start, imported_count, error, db_product_vars,
                 redis, redis_up, revoked, poll_vars, upserts, marker_at, published, listing>>

\* publish the terminal FAILURE snapshot
ProcMarkFailure(j) ==
  /\ pc[j] = "mark_failure"
  /\ Publish(j, [state |-> "FAILURE", error |-> error[j].message])
  /\ pc' = [pc EXCEPT ![j] = "failed"]
  /\ UNCHANGED <<file_vars, chunk_start, imported_count, error, import_jobs,
                 db_product_vars, redis_up, revoked, poll_vars, upserts, marker_at, listing>>

(***************************************************************************)
(* GET /api/task-status/{task_id}: the Redis read, then the transaction    *)
(***************************************************************************)
get_task_status_read(j) ==
  /\ poll_pc[j] = "idle"
  /\ pc[j] \notin {"new", "rejected"}
  /\ poll_status' = [poll_status EXCEPT ![j] = RedisGet(TaskKey(j))]
  /\ poll_pc' = [poll_pc EXCEPT ![j] = "got"]
  /\ UNCHANGED <<orch_vars, file_vars, import_jobs, db_product_vars, redis, redis_up,
                 revoked, poll_resp, upserts, marker_at, published, listing>>

\* the view built from the ImportJob row when Redis has no snapshot
JobView(job) ==
  [state |-> job.status,
   current |-> job.records_processed,
   total |-> job.total_records,
   progress_percent |-> IF job.total_records > 0
                        THEN PercentOf(job.records_processed, job.total_records)
                        ELSE 0]

NotFound == [state |-> "NOT_FOUND", progress_percent |-> 0]

get_task_status_finish_keeping_count(j) ==
  /\ poll_pc[j] = "got"
  /\ LET status == poll_status[j]
         job == import_jobs[j]
     IN IF status # None
        THEN /\ import_jobs' = IF job # None
                               THEN [import_jobs EXCEPT ![j] =
                                       [status |-> Get(status, "state", "PROGRESS"),
                                        records_processed |-> job.records_processed,
                                        total_records |-> Get(status, "total", 0)]]
                               ELSE import_jobs
             /\ poll_resp' = [poll_resp EXCEPT ![j] = status]
        ELSE /\ poll_resp' = [poll_resp EXCEPT ![j] = IF job # None THEN JobView(job)
                                                      ELSE NotFound]
             /\ UNCHANGED import_jobs
  /\ poll_pc' = [poll_pc EXCEPT ![j] = "idle"]
  /\ poll_status' = [poll_status EXCEPT ![j] = None]
  /\ UNCHANGED <<orch_vars, file_vars, db_product_vars, redis, redis_up, revoked,
                 upserts, marker_at, published, listing>>

get_task_status_finish(j) ==
  /\ poll_pc[j] = "got"
  /\ LET status == poll_status[j]
         job == import_jobs[j]
     IN IF status # None
        THEN /\ import_jobs' = IF job # None
                               THEN [import_jobs EXCEPT ![j] =
                                       [status |-> Get(status, "state", "PROGRESS"),
                                        records_processed |-> Get(status, "current", 0),
                                        total_records |-> Get(status, "total", 0)]]
                               ELSE import_jobs
             /\ poll_resp' = [poll_resp EXCEPT ![j] = status]
        ELSE /\ poll_resp' = [poll_resp EXCEPT ![j] = IF job # None THEN JobView(job)
                                                      ELSE NotFound]
             /\ UNCHANGED import_jobs
  /\ poll_pc' = [poll_pc EXCEPT ![j] = "idle"]
  /\ poll_status' = [poll_status EXCEPT ![j] = None]
  /\ UNCHANGED <<orch_vars, file_vars, db_product_vars, redis, redis_up, revoked,
                 upserts, marker_at, published, listing>>

(***************************************************************************)
(* POST /api/cancel-upload/{task_id}: a Celery revoke broadcast            *)
(***************************************************************************)
cancel_upload(j) ==
  /\ pc[j] \notin {"new", "rejected"}
  /\ j \notin revoked
  /\ revoked' = revoked \cup {j}
  /\ UNCHANGED <<orch_vars, file_vars, import_jobs, db_product_vars, redis, redis_up,
                 poll_vars, upserts, marker_at, published, listing>>

(***************************************************************************)
(* Environment: the external actor that writes cancel:<id>, and the        *)
(* expiry of a snapshot's TTL                                              *)
(***************************************************************************)
InChunk == {"chunk", "publish", "clear"}

WriteCancelMarker(j) ==
  /\ pc[j] \notin {"new", "rejected"}
  /\ redis_up
  /\ redis[CancelKey(j)] = None
  /\ redis' = [redis EXCEPT ![CancelKey(j)] = [marker |-> TRUE]]
  /\ marker_at' = [marker_at EXCEPT ![j] = IF pc[j] \in InChunk THEN chunk_start[j] ELSE -1]
  /\ UNCHANGED <<orch_vars, file_vars, import_jobs, db_product_vars, redis_up, revoked,
                 poll_vars, upserts, published, listing>>

ExpireSnapshot(j) ==
  /\ redis[TaskKey(j)] # None
  /\ redis' = [redis EXCEPT ![TaskKey(j)] = None]
  /\ UNCHANGED <<orch_vars, file_vars, import_jobs, db_product_vars, redis_up, revoked,
                 poll_vars, upserts, marker_at, published, listing>>

(***************************************************************************)
(* Specifications                                                          *)
(***************************************************************************)
Orchestrator(j) ==
  \/ ProcStart(j)
  \/ ProcInit(j)
  \/ ProcLoop(j)
  \/ \E outcome \in WriteOutcomes : ProcChunk(j, outcome)
  \/ ProcPublish(j)
  \/ ProcClear(j)
  \/ ProcFinalize(j)
  \/ ProcMarkSuccess(j)
  \/ ProcExcept(j)
  \/ ProcMarkFailure(j)

\* one upload, polled, possibly cancelled, possibly hitting a write error
Next ==
  \/ \E fname \in FileNames, content \in Files : upload_csv(1, fname, content)
  \/ Orchestrator(1)
  \/ get_task_status_read(1)
  \/ get_task_status_finish(1)
  \/ WriteCancelMarker(1)
  \/ ExpireSnapshot(1)

Spec == Init /\ [][Next]_vars

\* one upload and its orchestrator, with the external cancellation marker
NextImport ==
  \/ \E fname \in FileNames, content \in Files : upload_csv(1, fname, content)
  \/ Orchestrator(1)
  \/ WriteCancelMarker(1)

SpecImport == Init /\ [][NextImport]_vars

\* one upload and the cancel endpoint, nobody else writing to Redis
NextCancel ==
  \/ \E fname \in FileNames, content \in Files : upload_csv(1, fname, content)
  \/ Orchestrator(1)
  \/ cancel_upload(1)

SpecCancel == Init /\ [][NextCancel]_vars

(***************************************************************************)
(* PUT /api/products/{product_id}/toggle-status                            *)
(***************************************************************************)
\* latest clock value at which a user still toggles a product
MaxToggleTime == 4

toggle_product_status(k) ==
  /\ k \in DOMAIN products
  /\ now < MaxToggleTime
  /\ now' = now + 1
  /\ products' = [products EXCEPT ![k] = [@ EXCEPT !.active = ~@, !.updated_at = now + 1]]
  /\ redis' = ClearProductsCache(redis)
  /\ UNCHANGED <<orch_vars, file_vars, import_jobs, next_id, redis_up, revoked,
                 poll_vars, upserts, marker_at, published, listing>>

\* the same file imported twice in sequence, products toggled at any time
NextTwice ==
  \/ \E fname \in FileNames, content \in Files : upload_csv(1, fname, content)
  \/ pc[1] = "succeeded" /\ upload_csv(2, filename[1], csv_content[1])
  \/ \E j \in JobIds : Orchestrator(j)
  \/ \E k \in DOMAIN products : toggle_product_status(k)

SpecTwice == Init /\ [][NextTwice]_vars

(***************************************************************************)
(* POST /api/products and PUT /api/products/{product_id}                   *)
(***************************************************************************)
\* Product.sku.ilike(sku) for a sku without wildcard characters
ilike(k, sku) == upper(k) = upper(sku)

FormSkus == {<<"a">>, <<"A">>, <<"b">>}
FormNames == {<<"X">>, <<"Y">>}

\* updated_at has no default on insert (models.py:29): it stays NULL, written
\* 0 here, a value below every clock reading
create_product(name, sku, description, active) ==
  /\ now < MaxToggleTime
  /\ ~\E k \in DOMAIN products : ilike(k, sku)
  /\ products' = [k \in DOMAIN products \cup {sku} |->
                    IF k = sku
                    THEN [id |-> next_id, name |-> name, sku |-> sku,
                          description |-> description, active |-> active,
                          created_at |-> now + 1, updated_at |-> 0]
                    ELSE products[k]]
  /\ next_id' = next_id + 1
  /\ now' = now + 1
  /\ redis' = ClearProductsCache(redis)
  /\ UNCHANGED <<orch_vars, file_vars, import_jobs, redis_up, revoked, poll_vars,
                 upserts, marker_at, published, listing>>

\* k is the stored key of the product found by id; a new sku that collides
\* with another row's exact sku violates the unique constraint at commit
update_product(k, name, sku, description, active) ==
  /\ k \in DOMAIN products
  /\ now < MaxToggleTime
  /\ upper(sku) # upper(products[k].sku) => ~\E k2 \in DOMAIN products : ilike(k2, sku)
  /\ sku = k \/ sku \notin DOMAIN products
  /\ products' = [k2 \in (DOMAIN products \ {k}) \cup {sku} |->
                    IF k2 = sku
                    THEN [products[k] EXCEPT !.name = name, !.sku = sku,
                                             !.description = description,
                                             !.active = active, !.updated_at = now + 1]
                    ELSE products[k2]]
  /\ now' = now + 1
  /\ redis' = ClearProductsCache(redis)
  /\ UNCHANGED <<orch_vars, file_vars, import_jobs, next_id, redis_up, revoked,
                 poll_vars, upserts, marker_at, published, listing>>

CatalogFiles == SeqsUpTo({Row(<<"X">>, <<"a">>, <<"p">>), Row(<<"Z">>, <<"b">>, <<>>)}, 2)

\* one import next to products created and edited through the API
NextCatalog ==
  \/ \E fname \in FileNames, content \in CatalogFiles : upload_csv(1, fname, content)
  \/ Orchestrator(1)
  \/ \E name \in FormNames, sku \in FormSkus, active \in BOOLEAN :
       create_product(name, sku, <<>>, active)
  \/ \E k \in DOMAIN products, name \in FormNames, sku \in FormSkus, active \in BOOLEAN :
       update_product(k, name, sku, <<>>, active)

SpecCatalog == Init /\ [][NextCatalog]_vars

(***************************************************************************)
(* Redis outages: every command fails while redis_up is FALSE              *)
(***************************************************************************)
RedisFail ==
  /\ redis_up
  /\ redis_up' = FALSE
  /\ UNCHANGED <<orch_vars, file_vars, import_jobs, db_product_vars, redis, revoked,
                 poll_vars, upserts, marker_at, published, listing>>

RedisRecover ==
  /\ ~redis_up
  /\ redis_up' = TRUE
  /\ UNCHANGED <<orch_vars, file_vars, import_jobs, db_product_vars, redis, revoked,
                 poll_vars, upserts, marker_at, published, listing>>

\* one upload and its orchestrator while Redis goes down and comes back
NextOutage ==
  \/ \E fname \in FileNames, content \in Files : upload_csv(1, fname, content)
  \/ Orchestrator(1)
  \/ RedisFail
  \/ RedisRecover

SpecOutage == Init /\ [][NextOutage]_vars

(***************************************************************************)
(* Files whose header is name,description: DictReader yields rows without  *)
(* the sku column                                                          *)
(***************************************************************************)
NoSkuRows == {[name |-> <<"X">>, description |-> <<"p">>],
              [name |-> <<"Y">>, description |-> <<>>]}

NoSkuFiles == SeqsUpTo(NoSkuRows, MaxRows)

\* one upload, with or without the sku column, and its orchestrator
NextHeader ==
  \/ \E fname \in FileNames, content \in Files \cup NoSkuFiles : upload_csv(1, fname, content)
  \/ Orchestrator(1)

SpecHeader == Init /\ [][NextHeader]_vars

\* one upload, possibly with short rows, and its orchestrator
NextShort ==
  \/ \E fname \in FileNames, content \in ShortFiles : upload_csv(1, fname, content)
  \/ Orchestrator(1)

SpecShort == Init /\ [][NextShort]_vars

(***************************************************************************)
(* Two imports at once. The orchestrators are tasks of one event loop and  *)
(* db.execute / db.commit do not await, so the transactions of two jobs    *)
(* never overlap: the jobs interleave between transactions.                *)
(***************************************************************************)
RaceFiles == SeqsUpTo({Row(<<"X">>, <<"a">>, <<"p">>),
                       Row(<<"Y">>, <<" ", "A">>, <<"q", " ">>)}, MaxRows)

NextRace ==
  \/ \E j \in JobIds, fname \in FileNames, content \in RaceFiles : upload_csv(j, fname, content)
  \/ \E j \in JobIds : Orchestrator(j)

SpecRace == Init /\ [][NextRace]_vars

(***************************************************************************)
(* Files under other headers: DictReader keys the rows by the header's     *)
(* column names exactly as they are written                                *)
(***************************************************************************)
\* the rows of a file under the header NAME,SKU,Description
UpperHeader(file) ==
  [i \in 1..Len(file) |-> [NAME |-> file[i].name, SKU |-> file[i].sku,
                           Description |-> file[i].description]]

\* the rows of a file under the header name,sku,description,price
WithPrice(file) ==
  [i \in 1..Len(file) |-> [name |-> file[i].name, sku |-> file[i].sku,
                           description |-> file[i].description, price |-> <<"9">>]]

ColumnFiles == Files \cup {UpperHeader(f) : f \in Files} \cup {WithPrice(f) : f \in Files}

\* one upload under any of the three headers, and its orchestrator
NextColumns ==
  \/ \E fname \in FileNames, content \in ColumnFiles : upload_csv(1, fname, content)
  \/ Orchestrator(1)

SpecColumns == Init /\ [][NextColumns]_vars

(***************************************************************************)
(* process_csv_task (tasks.py): the import as a Celery task. The task has  *)
(* no ImportJob row; its states go to the result backend. A backend error  *)
(* is not caught by update_state: the task is modelled while Redis is up.  *)
(***************************************************************************)
\* self.update_state / the state Celery stores when the task returns or raises
UpdateState(j, meta) ==
  /\ redis_up
  /\ redis' = [redis EXCEPT ![MetaKey(j)] = meta]
  /\ published' = [published EXCEPT ![j] = Append(@, meta)]

\* the task is taken from the queue with the CSV text as its argument
process_csv_task(j, content) ==
  /\ pc[j] = "new"
  /\ csv_content' = [csv_content EXCEPT ![j] = content]
  /\ pc' = [pc EXCEPT ![j] = "t_init"]
  /\ UNCHANGED <<filename, chunk_start, imported_count, error, import_jobs,
                 db_product_vars, redis, redis_up, revoked, poll_vars, upserts, marker_at,
                 published, listing>>

TaskInit(j) ==
  /\ pc[j] = "t_init"
  /\ UpdateState(j, [state |-> "PROGRESS", current |-> 0, total |-> total_rows(j),
                     progress_percent |-> 0])
  /\ chunk_start' = [chunk_start EXCEPT ![j] = 0]
  /\ imported_count' = [imported_count EXCEPT ![j] = 0]
  /\ pc' = [pc EXCEPT ![j] = "t_loop"]
  /\ UNCHANGED <<file_vars, error, import_jobs, db_product_vars, redis_up, revoked,
                 poll_vars, upserts, marker_at, listing>>

\* for chunk_start in range(0, total_rows, chunk_size)
TaskLoop(j) ==
  /\ pc[j] = "t_loop"
  /\ pc' = [pc EXCEPT ![j] = IF chunk_start[j] >= total_rows(j) THEN "t_return" ELSE "t_chunk"]
  /\ UNCHANGED <<file_vars, chunk_start, imported_count, error, import_jobs,
                 db_product_vars, redis, redis_up, revoked, poll_vars, upserts, marker_at,
                 published, listing>>

\* dedupe the chunk and execute the batch upsert when it is not empty
TaskChunk(j, outcome) ==
  /\ pc[j] = "t_chunk"
  /\ LET batch == valid_products(chunk(j))
     IN IF StripRaises(chunk(j))
        THEN /\ outcome = "ok"
             /\ error' = [error EXCEPT ![j] = [message |-> "AttributeError",
                                                aborted |-> FALSE]]
             /\ pc' = [pc EXCEPT ![j] = "t_except"]
             /\ UNCHANGED <<imported_count, db_product_vars, upserts>>
        ELSE IF batch = <<>>
        THEN /\ outcome = "ok"
             /\ pc' = [pc EXCEPT ![j] = "t_publish"]
             /\ UNCHANGED <<imported_count, error, db_product_vars, upserts>>
        ELSE IF outcome = "ok"
        THEN LET r == Upsert(products, next_id, batch, now + 1)
             IN /\ products' = r.tbl
                /\ next_id' = r.nid
                /\ now' = now + 1
                /\ upserts' = [upserts EXCEPT ![j] = Append(@, [chunk_start |-> chunk_start[j],
                                                                 values |-> batch,
                                                                 at |-> now + 1])]
                /\ imported_count' = [imported_count EXCEPT ![j] = @ + Len(batch)]
                /\ pc' = [pc EXCEPT ![j] = "t_publish"]
                /\ UNCHANGED error
        ELSE /\ error' = [error EXCEPT ![j] = [message |-> "write failed",
                                                   aborted |-> outcome = "server_error"]]
             /\ pc' = [pc EXCEPT ![j] = "t_except"]
             /\ UNCHANGED <<imported_count, db_product_vars, upserts>>
  /\ UNCHANGED <<file_vars, chunk_start, import_jobs, redis, redis_up, revoked, poll_vars,
                 marker_at, published, listing>>

\* the progress report of every chunk, then the next iteration
TaskPublish(j) ==
  /\ pc[j] = "t_publish"
  /\ UpdateState(j, [state |-> "PROGRESS", current |-> chunk_end(j),
                     total |-> total_rows(j),
                     progress_percent |-> PercentOf(chunk_end(j), total_rows(j)),
                     imported_count |-> imported_count[j]])
  /\ chunk_start' = [chunk_start EXCEPT ![j] = @ + chunk_size]
  /\ pc' = [pc EXCEPT ![j] = "t_loop"]
  /\ UNCHANGED <<file_vars, imported_count, error, import_jobs, db_product_vars,
                 redis_up, revoked, poll_vars, upserts, marker_at, listing>>

\* the return value, stored by Celery under the state SUCCESS
TaskReturn(j) ==
  /\ pc[j] = "t_return"
  /\ UpdateState(j, [state |-> "SUCCESS", current |-> total_rows(j),
                     total |-> total_rows(j), progress_percent |-> 100,
                     imported_count |-> imported_count[j]])
  /\ pc' = [pc EXCEPT ![j] = "t_succeeded"]
  /\ UNCHANGED <<file_vars, chunk_start, imported_count, error, import_jobs,
                 db_product_vars, redis_up, revoked, poll_vars, upserts, marker_at, listing>>

\* except branch: report FAILURE and re-raise; no statement goes to the database
TaskExcept(j) ==
  /\ pc[j] = "t_except"
  /\ UpdateState(j, [state |-> "FAILURE", error |-> error[j].message])
  /\ pc' = [pc EXCEPT ![j] = "t_failed"]
  /\ UNCHANGED <<file_vars, chunk_start, imported_count, error, import_jobs,
                 db_product_vars, redis_up, revoked, poll_vars, upserts, marker_at, listing>>

CeleryTask(j) ==
  \/ TaskInit(j)
  \/ TaskLoop(j)
  \/ \E outcome \in WriteOutcomes : TaskChunk(j, outcome)
  \/ TaskPublish(j)
  \/ TaskReturn(j)
  \/ TaskExcept(j)

\* the same CSV text imported by the in-process path (job 1) and by the
\* task-queue path (job 2)
NextPaths ==
  \/ \E fname \in FileNames, content \in ShortFiles : upload_csv(1, fname, content)
  \/ pc[1] \notin {"new", "rejected"} /\ process_csv_task(2, csv_content[1])
  \/ Orchestrator(1)
  \/ CeleryTask(2)

SpecPaths == Init /\ [][NextPaths]_vars


(***************************************************************************)
(* One import polled while it runs: files over two rows, one valid and     *)
(* one with a blank name.                                                  *)
(***************************************************************************)
PollRows == {Row(<<"X">>, <<"a">>, <<"p">>), Row(<<" ">>, <<"c">>, <<"p">>)}
PollFiles == SeqsUpTo(PollRows, MaxRows)

NextPoll ==
  \/ \E fname \in FileNames, content \in PollFiles : upload_csv(1, fname, content)
  \/ Orchestrator(1)
  \/ get_task_status_read(1)
  \/ get_task_status_finish(1)

SpecPoll == Init /\ [][NextPoll]_vars

(***************************************************************************)
(* One import with the catalogue listed by two clients while it runs.      *)
(***************************************************************************)
NextListing ==
  \/ \E fname \in FileNames, content \in PollFiles : upload_csv(1, fname, content)
  \/ Orchestrator(1)
  \/ \E r \in Readers : get_products(r)

SpecListing == Init /\ [][NextListing]_vars

(***************************************************************************)
(* Two imports of one-row files, each polled while both run.               *)
(***************************************************************************)
OneRowFiles == {<<r>> : r \in PollRows}

NextJobs ==
  \/ \E j \in JobIds, fname \in {CsvName}, content \in OneRowFiles :
       upload_csv(j, fname, content)
  \/ \E j \in JobIds : Orchestrator(j)
  \/ \E j \in JobIds : get_task_status_read(j)
  \/ \E j \in JobIds : get_task_status_finish(j)

SpecJobs == Init /\ [][NextJobs]_vars

(***************************************************************************)
(* One import that may be cancelled, polled while it runs and after its    *)
(* snapshot has expired.                                                   *)
(***************************************************************************)
NextView ==
  \/ \E fname \in FileNames, content \in PollFiles : upload_csv(1, fname, content)
  \/ Orchestrator(1)
  \/ WriteCancelMarker(1)
  \/ get_task_status_read(1)
  \/ get_task_status_finish(1)
  \/ ExpireSnapshot(1)

SpecView == Init /\ [][NextView]_vars

(***************************************************************************)
(* Long files: enough rows for the percentage to take many values          *)
(***************************************************************************)
\* rows of a long file
MaxCount == 50

\* the i-th key of a generated file: i letters
KeyNo(i) == [n \in 1..i |-> "b"]

\* a file of total rows with pairwise distinct keys whose first valid rows
\* have a name and whose other rows have a blank one
GenFile(total, valid) ==
  [i \in 1..total |-> Row(IF i <= valid THEN <<"X">> ELSE <<" ">>, KeyNo(i), <<>>)]

LongFiles == {GenFile(0, 0)} \cup {GenFile(MaxCount, v) : v \in (MaxCount - 23)..(MaxCount - 20)}

\* one long upload, polled while it runs and after its snapshot has expired
NextFallback ==
  \/ \E fname \in FileNames, content \in LongFiles : upload_csv(1, fname, content)
  \/ Orchestrator(1)
  \/ get_task_status_read(1)
  \/ get_task_status_finish(1)
  \/ ExpireSnapshot(1)

SpecFallback == Init /\ [][NextFallback]_vars

\* one upload of a file long enough to have chunks at and between the
\* publication period, or of a short one, and its import
NextProgress ==
  \/ \E fname \in FileNames, content \in LongFiles \cup Files : upload_csv(1, fname, content)
  \/ Orchestrator(1)

SpecProgress == Init /\ [][NextProgress]_vars

(***************************************************************************)
(* Files whose rows are all valid and carry pairwise distinct keys         *)
(***************************************************************************)
\* longest file of distinct keys, in data rows
MaxDistinct == 5

DistinctRows == {Row(<<"X">>, KeyNo(i), <<"p">>) : i \in 1..MaxDistinct}

DistinctFiles ==
  {f \in SeqsUpTo(DistinctRows, MaxDistinct) :
     \A m, n \in 1..Len(f) : f[m].sku = f[n].sku => m = n}

\* one upload of such a file and its orchestrator
NextDistinct ==
  \/ \E fname \in FileNames, content \in DistinctFiles : upload_csv(1, fname, content)
  \/ Orchestrator(1)

SpecDistinct == Init /\ [][NextDistinct]_vars

(***************************************************************************)
(* Vocabulary of the properties                                            *)
(***************************************************************************)
Finished == {"succeeded", "failed", "crashed", "cancelled"}
SuccessPath == {"finalize", "mark_success", "succeeded"}

IsValidRow(row) == strip(row.name) # <<>> /\ strip(row.sku) # <<>>
NormKey(row) == upper(strip(row.sku))

\* 0-based index of the chunk that holds row i (rows are numbered from 1)
ChunkOf(i) == (i - 1) \div chunk_size
ChunkRows(file, c) == {i \in 1..Len(file) : ChunkOf(i) = c}
ValidIn(file, c) == {i \in ChunkRows(file, c) : IsValidRow(file[i])}
KeysIn(file, c) == {NormKey(file[i]) : i \in ValidIn(file, c)}
NumChunks(file) == (Len(file) + chunk_size - 1) \div chunk_size

RECURSIVE SumKeys(_, _)
SumKeys(file, c) == IF c < 0 THEN 0 ELSE Cardinality(KeysIn(file, c)) + SumKeys(file, c - 1)

\* valid rows of the whole file, counted once per chunk and key
ExpectedImported(file) == SumKeys(file, NumChunks(file) - 1)
NumValidRows(file) == Cardinality({i \in 1..Len(file) : IsValidRow(file[i])})

\* first row of chunk c of the file that carries key k
FirstWith(file, c, k) ==
  CHOOSE i \in ValidIn(file, c) :
    /\ NormKey(file[i]) = k
    /\ \A i2 \in ValidIn(file, c) : NormKey(file[i2]) = k => i <= i2

(***************************************************************************)
(* C1. Every job created by an upload ends with a durable status that is   *)
(* SUCCESS, FAILURE or CANCELLED: once its orchestrator task has returned, *)
(* the ImportJob row carries a terminal status.                            *)
(***************************************************************************)
C1_FinishedJobIsTerminal ==
  \A j \in JobIds :
    (pc[j] \in Finished /\ import_jobs[j] # None) => import_jobs[j].status \in Terminal

(***************************************************************************)
(* C2. Once the durable ImportJob status is SUCCESS, FAILURE or CANCELLED, *)
(* no step of the orchestrator or of a status poll changes it.             *)
(***************************************************************************)
C2_TerminalStatusIsFinal ==
  [][\A j \in JobIds :
       (import_jobs[j] # None /\ import_jobs[j].status \in Terminal)
         => (import_jobs'[j] # None /\ import_jobs'[j].status = import_jobs[j].status)]_vars

(***************************************************************************)
(* C3. The processed-record value returned by successive progress queries  *)
(* of one job never decreases.                                             *)
(***************************************************************************)
C3_ReportedCurrentMonotone ==
  [][\A j \in JobIds :
       ("current" \in DOMAIN poll_resp[j] /\ "current" \in DOMAIN poll_resp'[j])
         => poll_resp'[j].current >= poll_resp[j].current]_vars

(***************************************************************************)
(* C4. Whenever the durable status is SUCCESS, records_processed equals    *)
(* the number of valid rows after deduplication.                           *)
(***************************************************************************)
C4_SuccessCountsImported ==
  \A j \in JobIds :
    (import_jobs[j] # None /\ import_jobs[j].status = "SUCCESS")
      => import_jobs[j].records_processed = ExpectedImported(csv_content[j])

(***************************************************************************)
(* C5. Rows whose name or key is empty after trimming create no entity and *)
(* are never counted in records_processed or imported_count, while         *)
(* total_records counts every parsed row.                                  *)
(***************************************************************************)
C5_InvalidRowsNotCounted ==
  \A j \in JobIds :
    /\ \A i \in 1..Len(upserts[j]) : \A n \in 1..Len(upserts[j][i].values) :
         \E r \in 1..Len(csv_content[j]) :
           IsValidRow(csv_content[j][r]) /\ NormKey(csv_content[j][r]) = upserts[j][i].values[n].sku
    /\ imported_count[j] <= NumValidRows(csv_content[j])
    /\ import_jobs[j] # None => import_jobs[j].records_processed <= NumValidRows(csv_content[j])
    /\ (import_jobs[j] # None /\ import_jobs[j].status = "SUCCESS")
         => import_jobs[j].total_records = Len(csv_content[j])

(***************************************************************************)
(* C9. When the orchestrator observes the cancellation marker, the durable *)
(* ImportJob is marked CANCELLED with the counters reached so far.         *)
(***************************************************************************)
C9_CancelledJobIsDurable ==
  \A j \in JobIds :
    (pc[j] = "cancelled" /\ import_jobs[j] # None)
      => /\ import_jobs[j].status = "CANCELLED"
         /\ import_jobs[j].records_processed = imported_count[j]

(***************************************************************************)
(* C10. A cancellation request made through the cancel operation makes the *)
(* marker cancel:<job id> present in the ephemeral store.                  *)
(***************************************************************************)
C10_CancelWritesMarker ==
  [][\A j \in JobIds :
       (j \in revoked' /\ j \notin revoked) => redis'[CancelKey(j)] # None]_vars

(***************************************************************************)
(* C6. Within one chunk, rows whose keys are equal after trimming and      *)
(* uppercasing yield exactly one upserted record, carrying the name and    *)
(* description of the first such row; later rows with that key are         *)
(* discarded and not counted.                                              *)
(***************************************************************************)
RECURSIVE SumBatches(_, _)
SumBatches(log, n) == IF n = 0 THEN 0 ELSE Len(log[n].values) + SumBatches(log, n - 1)

C6_FirstOccurrenceWins ==
  \A j \in JobIds :
    /\ \A b \in 1..Len(upserts[j]) :
         LET file == csv_content[j]
             c == upserts[j][b].chunk_start \div chunk_size
             batch == upserts[j][b].values
         IN /\ \A m, n \in 1..Len(batch) : batch[m].sku = batch[n].sku => m = n
            /\ {batch[n].sku : n \in 1..Len(batch)} = KeysIn(file, c)
            /\ \A n \in 1..Len(batch) :
                 LET first == file[FirstWith(file, c, batch[n].sku)]
                 IN /\ batch[n].name = strip(first.name)
                    /\ batch[n].description = strip(first.description)
    /\ imported_count[j] = SumBatches(upserts[j], Len(upserts[j]))

\* a batch was executed for a chunk that held two valid rows with one key
C6_Witness ==
  \E b \in 1..Len(upserts[1]) :
    LET file == csv_content[1]
        c == upserts[1][b].chunk_start \div chunk_size
    IN /\ \E i1, i2 \in ValidIn(file, c) :
            i1 < i2 /\ NormKey(file[i1]) = NormKey(file[i2]) /\ file[i1].name # file[i2].name
       /\ Len(upserts[1][b].values) = 1
       /\ imported_count[1] >= 1

(***************************************************************************)
(* C7. Importing the same file a second time leaves the same stored        *)
(* entities by key; no step of the second import changes an entity's id,   *)
(* active flag or created_at, and when it has succeeded every entity's     *)
(* name and description are those of the file (of the last chunk that      *)
(* carries the key).                                                       *)
(***************************************************************************)
AllKeys(file) == UNION {KeysIn(file, c) : c \in 0..(NumChunks(file) - 1)}
LastChunkWith(file, k) ==
  CHOOSE c \in 0..(NumChunks(file) - 1) :
    /\ k \in KeysIn(file, c)
    /\ \A c2 \in 0..(NumChunks(file) - 1) : k \in KeysIn(file, c2) => c2 <= c
RowFor(file, k) == file[FirstWith(file, LastChunkWith(file, k), k)]

C7_SecondImportIdempotent ==
  /\ [](pc[2] = "succeeded" =>
          /\ DOMAIN products = AllKeys(csv_content[2])
          /\ \A k \in DOMAIN products :
               /\ products[k].sku = k
               /\ products[k].name = strip(RowFor(csv_content[2], k).name)
               /\ products[k].description = strip(RowFor(csv_content[2], k).description))
  /\ [][(pc[2] # "new" /\ pc'[2] # pc[2]) =>
          /\ DOMAIN products' = DOMAIN products
          /\ \A k \in DOMAIN products :
               /\ products'[k].id = products[k].id
               /\ products'[k].active = products[k].active
               /\ products'[k].created_at = products[k].created_at]_vars

\* the second import has succeeded on a file that repeats a key in two chunks,
\* with an entity deactivated in between
C7_Witness ==
  /\ pc[2] = "succeeded"
  /\ Len(upserts[2]) = 2
  /\ \E k \in KeysIn(csv_content[2], 0) \cap KeysIn(csv_content[2], 1) :
       /\ ~products[k].active
       /\ products[k].updated_at > products[k].created_at

(***************************************************************************)
(* C8. If the cancellation marker becomes present while chunk k is being   *)
(* processed, no chunk k+1..n is ever upserted and the job ends cancelled  *)
(* instead of SUCCESS.                                                     *)
(***************************************************************************)
NoLaterChunk(j) ==
  \A b \in 1..Len(upserts[j]) : upserts[j][b].chunk_start <= marker_at[j]

C11_FallbackView ==
  [][\A j \in JobIds :
       (poll_pc[j] = "got" /\ poll_pc'[j] = "idle" /\ poll_status[j] = None
          /\ import_jobs[j] # None)
       => /\ poll_resp'[j] =
               [state |-> import_jobs[j].status,
                current |-> import_jobs[j].records_processed,
                total |-> import_jobs[j].total_records,
                progress_percent |->
                  IF import_jobs[j].total_records > 0
                  THEN (import_jobs[j].records_processed * 100) \div import_jobs[j].total_records
                  ELSE 0]
          /\ import_jobs' = import_jobs]_vars

(***************************************************************************)
(* C12. A file of N rows, all valid with pairwise distinct keys, is        *)
(* processed as ceil(N / chunk_size) chunks taken in input order, each of  *)
(* chunk_size rows except a shorter last one, each upserted as one batch;  *)
(* the job ends SUCCESS with imported_count = N.                           *)
(***************************************************************************)
\* the record that the loop builds from a valid row
RecordOf(row) ==
  [name |-> strip(row.name), sku |-> NormKey(row), description |-> strip(row.description)]

C12_DistinctKeysChunked ==
  \A j \in JobIds :
    LET file == csv_content[j]
        N == Len(file)
    IN /\ \A b \in 1..Len(upserts[j]) :
            LET batch == upserts[j][b].values
            IN /\ upserts[j][b].chunk_start = (b - 1) * chunk_size
               /\ Len(batch) = Min(chunk_size, N - (b - 1) * chunk_size)
               /\ \A n \in 1..Len(batch) : batch[n] = RecordOf(file[(b - 1) * chunk_size + n])
       /\ pc[j] \in SuccessPath =>
            /\ Len(upserts[j]) = NumChunks(file)
            /\ imported_count[j] = N
       /\ pc[j] = "succeeded" =>
            /\ import_jobs[j].status = "SUCCESS"
            /\ import_jobs[j].records_processed = N
       /\ (pc[j] \in Finished /\ error[j] = None) => pc[j] = "succeeded"

\* a file of more than two chunks has succeeded, its last batch a short one
C12_Witness ==
  /\ pc[1] = "succeeded"
  /\ Len(upserts[1]) >= 2
  /\ \A b \in 1..(Len(upserts[1]) - 1) : Len(upserts[1][b].values) = chunk_size
  /\ Len(upserts[1][Len(upserts[1])].values) < chunk_size
  /\ imported_count[1] = Len(csv_content[1])
  /\ imported_count[1] = Cardinality(DOMAIN products)

(***************************************************************************)
(* C13. In every reachable state, after any sequence and interleaving of   *)
(* product creation, product update and import upserts, no two stored      *)
(* entities have keys that are equal ignoring case.                        *)
(***************************************************************************)
C13_KeysUniqueIgnoringCase ==
  \A k1, k2 \in DOMAIN products : upper(k1) = upper(k2) => k1 = k2

(***************************************************************************)
(* C14. An import upsert of a record whose key already exists changes only *)
(* that entity's name, description and updated_at: its id and active flag  *)
(* (also when the entity was deactivated before the import) are left       *)
(* unchanged, and entities whose keys are not in the batch are not         *)
(* modified at all.                                                        *)
(***************************************************************************)
LastBatch(log) == log[Len(log)].values

C14_UpsertFrame ==
  [][\A j \in JobIds :
       Len(upserts'[j]) > Len(upserts[j]) =>
         LET batch == LastBatch(upserts'[j])
         IN \A k \in DOMAIN products :
              /\ k \in DOMAIN products'
              /\ \A n \in 1..Len(batch) :
                   batch[n].sku = k =>
                     products'[k] = [products[k] EXCEPT !.name = batch[n].name,
                                                        !.description = batch[n].description,
                                                        !.updated_at = now']
              /\ (\A n \in 1..Len(batch) : batch[n].sku # k) => products'[k] = products[k]]_vars

\* the import has just upserted a batch over an entity that was created
\* inactive through the API, next to an entity outside the batch
C14_Witness ==
  /\ pc[1] = "publish"
  /\ Len(upserts[1]) = 1
  /\ \E n \in 1..Len(LastBatch(upserts[1])) :
       LET k == LastBatch(upserts[1])[n].sku
       IN /\ k \in DOMAIN products
          /\ ~products[k].active
          /\ products[k].created_at < upserts[1][1].at
          /\ products[k].updated_at = upserts[1][1].at
  /\ upserts[1][1].at = now
  /\ \E k \in DOMAIN products :
       /\ \A n \in 1..Len(LastBatch(upserts[1])) : LastBatch(upserts[1])[n].sku # k
       /\ products[k].updated_at < now

(***************************************************************************)
(* C15. If the batch upsert of some chunk fails, the job's durable status  *)
(* becomes FAILURE, a FAILURE snapshot carrying the error message is       *)
(* published, no later chunk is processed and the failing chunk is not     *)
(* retried, while the entities written by earlier chunks remain in the     *)
(* store.                                                                  *)
(***************************************************************************)
C15_WriteFailureFailsJob ==
  /\ [](\A j \in JobIds :
          (error[j] # None /\ pc[j] \in Finished) =>
            /\ import_jobs[j].status = "FAILURE"
            /\ redis[TaskKey(j)] = [state |-> "FAILURE", error |-> error[j].message])
  /\ [][\A j \in JobIds :
          error[j] # None =>
            /\ upserts'[j] = upserts[j]
            /\ chunk_start'[j] = chunk_start[j]
            /\ products' = products]_vars

(***************************************************************************)
(* C16. Failures of the ephemeral store (progress publish, cancellation    *)
(* read, listing-cache invalidation), at any step and in any combination,  *)
(* never fail the import: the job reaches the same durable outcome         *)
(* (SUCCESS, same stored entities, same records_processed) as a run of the *)
(* same input with a working store and no cancellation marker.             *)
(***************************************************************************)
C16_StoreFailuresHarmless ==
  \A j \in JobIds :
    LET file == csv_content[j]
    IN /\ error[j] # None => error[j].message = "write failed"
       /\ (pc[j] \in Finished /\ error[j] = None) => pc[j] = "succeeded"
       /\ pc[j] = "succeeded" =>
            /\ import_jobs[j] = [status |-> "SUCCESS",
                                 records_processed |-> ExpectedImported(file),
                                 total_records |-> Len(file)]
            /\ DOMAIN products = AllKeys(file)
            /\ \A k \in DOMAIN products :
                 /\ products[k].name = strip(RowFor(file, k).name)
                 /\ products[k].description = strip(RowFor(file, k).description)
                 /\ products[k].active

\* a two-chunk import has succeeded although no Redis command of the run did
C16_Witness ==
  /\ pc[1] = "succeeded"
  /\ ~redis_up
  /\ redis[TaskKey(1)] = None
  /\ Len(upserts[1]) = 2
  /\ import_jobs[1].status = "SUCCESS"
  /\ import_jobs[1].records_processed = Cardinality(DOMAIN products)

(***************************************************************************)
(* C17. An upload whose required columns are absent from the header, or    *)
(* that parses to zero rows, does not end SUCCESS: it is rejected at       *)
(* submission or its job terminates in FAILURE with a validation error.    *)
(***************************************************************************)
HasRequiredColumns(file) ==
  \A i \in 1..Len(file) : {"name", "sku"} \subseteq DOMAIN file[i]

C17_InvalidUploadNotSuccess ==
  \A j \in JobIds :
    (import_jobs[j] # None /\ import_jobs[j].status = "SUCCESS")
      => (Len(csv_content[j]) > 0 /\ HasRequiredColumns(csv_content[j]))

(***************************************************************************)
(* C18. A row that lacks a required field, or lacks the optional           *)
(* description (including a row with fewer fields than the header), never  *)
(* fails the job: a row without name or key is dropped and not counted, a  *)
(* row without description is imported with an empty description, and the  *)
(* remaining rows are imported and the job reaches SUCCESS.                *)
(***************************************************************************)
\* a field of a row, empty when the row does not have it
FieldOf(row, f) == IF Get(row, f, <<>>) = NoField THEN <<>> ELSE Get(row, f, <<>>)

C18_IncompleteRowsNeverFail ==
  \A j \in JobIds :
    /\ error[j] # None => error[j].message = "write failed"
    /\ pc[j] = "succeeded" =>
         \A i \in 1..Len(csv_content[j]) :
           LET row == csv_content[j][i]
           IN (strip(FieldOf(row, "name")) # <<>> /\ strip(FieldOf(row, "sku")) # <<>>)
                => upper(strip(FieldOf(row, "sku"))) \in DOMAIN products

(***************************************************************************)
(* C19. An upload whose filename does not have the CSV extension is        *)
(* rejected with a client error, and in that case no ImportJob is created, *)
(* no snapshot is written and no orchestrator task is started; an accepted *)
(* upload returns the id of an ImportJob that is already durably stored in *)
(* PENDING before the orchestrator runs its first step.                    *)
(***************************************************************************)
C19_UploadGate ==
  /\ [](\A j \in JobIds :
          /\ (pc[j] # "new" /\ ~endswith(filename[j], <<".", "c", "s", "v">>))
               => /\ pc[j] = "rejected"
                  /\ import_jobs[j] = None
                  /\ redis[TaskKey(j)] = None
                  /\ upserts[j] = <<>>
          /\ pc[j] = "rejected" => ~endswith(filename[j], <<".", "c", "s", "v">>)
          /\ pc[j] = "start" => /\ import_jobs[j] = NewImportJob
                                /\ import_jobs[j].status = "PENDING"
                                /\ redis[TaskKey(j)] = None)
  /\ [][\A j \in JobIds :
          /\ pc[j] = "rejected" => pc'[j] = "rejected"
          /\ (pc[j] = "new" /\ pc'[j] # "new") => pc'[j] \in {"rejected", "start"}]_vars

\* f.txt was rejected while the table of jobs is still empty
C19_Witness ==
  /\ pc[1] = "rejected"
  /\ filename[1] = TxtName
  /\ \A j \in JobIds : import_jobs[j] = None
  /\ \A k \in RedisKeys : redis[k] = None

(***************************************************************************)
(* C20. When two jobs upsert the same key concurrently, in every           *)
(* interleaving the store ends with exactly one entity for that key, whose *)
(* name and description both come from the same one of the two jobs'       *)
(* records (the last batch to commit), never a mixture and never a failed  *)
(* job.                                                                    *)
(***************************************************************************)
\* the committed writes of key k: job, batch and position in the batch
WritesOf(k) ==
  {w \in JobIds \X (1..MaxRows) \X (1..chunk_size) :
     /\ w[2] <= Len(upserts[w[1]])
     /\ w[3] <= Len(upserts[w[1]][w[2]].values)
     /\ upserts[w[1]][w[2]].values[w[3]].sku = k}

CommitOf(w) == upserts[w[1]][w[2]].at
WrittenBy(w) == upserts[w[1]][w[2]].values[w[3]]

C20_LastWriterWins ==
  /\ \A k \in DOMAIN products :
       \E first, last \in WritesOf(k) :
         /\ \A w \in WritesOf(k) : CommitOf(first) <= CommitOf(w) /\ CommitOf(w) <= CommitOf(last)
         /\ products[k].sku = k
         /\ products[k].name = WrittenBy(last).name
         /\ products[k].description = WrittenBy(last).description
         /\ products[k].updated_at = CommitOf(last)
         /\ products[k].created_at = CommitOf(first)
  /\ \A k1, k2 \in DOMAIN products : products[k1].id = products[k2].id => k1 = k2
  /\ \A j \in JobIds : (pc[j] \in Finished /\ error[j] = None) => pc[j] = "succeeded"

\* both jobs have succeeded on the same key with different names, job 2
\* committing between two batches of job 1
C20_Witness ==
  /\ pc[1] = "succeeded" /\ pc[2] = "succeeded"
  /\ Len(upserts[1]) = 2 /\ Len(upserts[2]) = 1
  /\ upserts[1][1].at < upserts[2][1].at
  /\ upserts[2][1].at < upserts[1][2].at
  /\ upserts[2][1].values[1].sku = upserts[1][2].values[1].sku
  /\ upserts[2][1].values[1].name # upserts[1][2].values[1].name
  /\ Cardinality(DOMAIN products) = 1

(***************************************************************************)
(* C21. The header's column names are matched case-insensitively: the same *)
(* data rows under a header such as NAME,SKU,Description produce the same  *)
(* upserted records and the same imported_count as under                   *)
(* name,sku,description; columns other than name, key and description are  *)
(* ignored.                                                                *)
(***************************************************************************)
\* the field of a row under either spelling of its column
ColumnOf(row, lower, other) ==
  IF lower \in DOMAIN row THEN row[lower] ELSE Get(row, other, <<>>)

\* the same data rows under the header name,sku,description
UnderPlainHeader(file) ==
  [i \in 1..Len(file) |-> Row(ColumnOf(file[i], "name", "NAME"),
                              ColumnOf(file[i], "sku", "SKU"),
                              ColumnOf(file[i], "description", "Description"))]

C21_HeaderCaseInsensitive ==
  \A j \in JobIds :
    LET file == UnderPlainHeader(csv_content[j])
    IN /\ \A b \in 1..Len(upserts[j]) :
            upserts[j][b].values =
              valid_products(SubSeq(file, upserts[j][b].chunk_start + 1,
                                    Min(upserts[j][b].chunk_start + chunk_size, Len(file))))
       /\ pc[j] \in SuccessPath => imported_count[j] = ExpectedImported(file)

(***************************************************************************)
(* C22. The in-process background path (_process_csv_async) and the        *)
(* task-queue path (process_csv_task) are one behaviour: for the same CSV  *)
(* content and no cancellation marker, both perform the same sequence of   *)
(* upsert batches, end with the same imported_count and the same terminal  *)
(* outcome, and report the same progress states at the chunks where both   *)
(* report.                                                                 *)
(***************************************************************************)
\* the state of the last report of job j
LastState(j) == published[j][Len(published[j])].state

\* both paths have ended after meeting the same write outcomes
EndedAlike ==
  /\ pc[1] \in Finished
  /\ pc[2] \in {"t_succeeded", "t_failed"}
  /\ error[1] = error[2]
  /\ chunk_start[1] = chunk_start[2]

C22_PathsAgree ==
  /\ \A n \in 1..Min(Len(upserts[1]), Len(upserts[2])) :
       /\ upserts[1][n].values = upserts[2][n].values
       /\ upserts[1][n].chunk_start = upserts[2][n].chunk_start
  /\ EndedAlike =>
       /\ Len(upserts[1]) = Len(upserts[2])
       /\ imported_count[1] = imported_count[2]
       /\ LastState(1) = LastState(2)
  /\ \A m \in 1..Len(published[1]), n \in 1..Len(published[2]) :
       (published[1][m].state = "PROGRESS" /\ published[2][n].state = "PROGRESS"
          /\ published[1][m].current = published[2][n].current)
       => /\ published[1][m].total = published[2][n].total
          /\ "progress_percent" \in DOMAIN published[1][m]
               => published[1][m].progress_percent = published[2][n].progress_percent

(***************************************************************************)
(* C23. A progress snapshot is published after a chunk exactly when the    *)
(* chunk's index is a multiple of 5 (its first row index is a multiple of  *)
(* the publication period) or the chunk is the final one; the final        *)
(* chunk's snapshot is always published, also when that chunk contains no  *)
(* valid row.                                                              *)
(***************************************************************************)
\* the first row indexes of the chunks job j has finished iterating over
ChunksDone(j) ==
  {c \in 0..(total_rows(j) - 1) : c % chunk_size = 0 /\ c < chunk_start[j]}

\* a per-chunk progress snapshot for the chunk starting at c was published
ChunkPublished(j, c) ==
  \E n \in 1..Len(published[j]) :
    /\ published[j][n].state = "PROGRESS"
    /\ "progress_percent" \in DOMAIN published[j][n]
    /\ published[j][n].current = Min(c + chunk_size, total_rows(j))

C23_PublishedExactlyWhenDue ==
  \A c \in ChunksDone(1) :
    ChunkPublished(1, c)
      <=> (c % publish_period = 0 \/ Min(c + chunk_size, total_rows(1)) = total_rows(1))

(***************************************************************************)
(* C24. The running imported count after chunk i equals the sum, over      *)
(* chunks 1..i, of the number of distinct normalized keys among that       *)
(* chunk's valid rows; a key that appears in two different chunks is       *)
(* counted once per chunk, and the stored entity ends with the name and    *)
(* description from the later chunk.                                       *)
(***************************************************************************)
\* number of chunks whose batch job j has executed or found empty
ChunksCounted(j) ==
  chunk_start[j] \div chunk_size + (IF pc[j] \in {"publish", "clear"} THEN 1 ELSE 0)

C24_RunningCountPerChunk ==
  LET file == csv_content[1]
  IN /\ imported_count[1] = SumKeys(file, ChunksCounted(1) - 1)
     /\ pc[1] \in SuccessPath =>
          \A k \in AllKeys(file) :
            /\ k \in DOMAIN products
            /\ products[k].name = strip(RowFor(file, k).name)
            /\ products[k].description = strip(RowFor(file, k).description)

\* a succeeded import whose file carries one key in two chunks under
\* different names: counted twice, stored with the later name
C24_Witness ==
  LET file == csv_content[1]
  IN /\ pc[1] = "succeeded"
     /\ \E k \in AllKeys(file), c1, c2 \in 0..(NumChunks(file) - 1) :
          /\ c1 < c2
          /\ k \in KeysIn(file, c1) /\ k \in KeysIn(file, c2)
          /\ file[FirstWith(file, c1, k)].name # file[FirstWith(file, c2, k)].name
          /\ products[k].name = strip(file[FirstWith(file, c2, k)].name)
     /\ imported_count[1] > Cardinality(AllKeys(file))

(***************************************************************************)
(* C25. The orchestrator reaches a cooperative suspension point after      *)
(* every chunk, including chunks that contain no valid row: the loop       *)
(* moves on to the next chunk only from the step that awaits               *)
(* asyncio.sleep, so between any two consecutive chunk iterations of one   *)
(* job other tasks can run.                                                *)
(***************************************************************************)
C25_YieldAfterEveryChunk ==
  [][chunk_start'[1] > chunk_start[1] => (pc[1] = "clear" /\ ProcClear(1))]_vars

(***************************************************************************)
(* C26. A progress query that finds a snapshot copies the snapshot's       *)
(* state, current and total into the job's ImportJob row and returns the   *)
(* snapshot unchanged; no progress query ever writes to the ephemeral      *)
(* store, and the orchestrator never builds a snapshot from values read    *)
(* back from the ImportJob row: what it publishes is determined by the     *)
(* file, its loop position, its counter and its error.                     *)
(***************************************************************************)
\* the snapshots the orchestrator of job j can publish in the current state
SnapshotsOf(j) ==
  { [state |-> "PROGRESS", current |-> 0, total |-> total_rows(j)],
    [state |-> "SUCCESS", current |-> total_rows(j), total |-> total_rows(j),
     progress_percent |-> 100, imported_count |-> imported_count[j]],
    [state |-> "FAILURE", error |-> Get(error[j], "message", "")],
    [state |-> "CANCELLED", current |-> chunk_start[j], total |-> total_rows(j)] }
  \cup (IF total_rows(j) > 0
        THEN {[state |-> "PROGRESS", current |-> chunk_end(j), total |-> total_rows(j),
               progress_percent |-> PercentOf(chunk_end(j), total_rows(j))]}
        ELSE {})

C26_SnapshotToJobOnly ==
  /\ [][\A j \in JobIds :
          (poll_pc[j] = "got" /\ poll_pc'[j] = "idle" /\ poll_status[j] # None) =>
            LET s == poll_status[j]
            IN /\ poll_resp'[j] = s
               /\ import_jobs[j] # None =>
                    /\ "state" \in DOMAIN s => import_jobs'[j].status = s.state
                    /\ "current" \in DOMAIN s => import_jobs'[j].records_processed = s.current
                    /\ "total" \in DOMAIN s => import_jobs'[j].total_records = s.total]_vars
  /\ [][(poll_pc' # poll_pc) => (redis' = redis /\ published' = published)]_vars
  /\ [][\A j \in JobIds :
          published'[j] # published[j] =>
            /\ Len(published'[j]) = Len(published[j]) + 1
            /\ published'[j][Len(published'[j])] \in SnapshotsOf(j)]_vars

\* a poll has returned the SUCCESS snapshot and left its values in the row
C26_Witness ==
  /\ poll_pc[1] = "idle"
  /\ poll_resp[1] = redis[TaskKey(1)]
  /\ poll_resp[1] # None
  /\ Get(poll_resp[1], "state", "") = "SUCCESS"
  /\ poll_resp[1].current > 0
  /\ import_jobs[1].status = "SUCCESS"
  /\ import_jobs[1].records_processed = poll_resp[1].current
  /\ import_jobs[1].total_records = poll_resp[1].total

(***************************************************************************)
(* C27. After a chunk has been committed and the listing cache             *)
(* invalidated, every product listing read that starts afterwards returns  *)
(* data that reflects that chunk, also when an earlier listing read, which *)
(* queried the store before the commit, writes its result into the cache   *)
(* after the invalidation.                                                 *)
(***************************************************************************)
\* the listing data holds every record of batch b, written at b's commit or later
Reflects(data, b) ==
  \A n \in 1..Len(upserts[1][b].values) :
    LET k == upserts[1][b].values[n].sku
    IN /\ k \in DOMAIN data
       /\ data[k].updated_at >= upserts[1][b].at

C27_ListingFreshAfterInvalidation ==
  \A r \in Readers :
    listing[r].resp # None =>
      \A b \in 1..listing[r].since : Reflects(listing[r].resp.products_data, b)

(***************************************************************************)
(* C28. At every reachable state the batches a job has committed to the    *)
(* store are a prefix of its chunk sequence, each applied wholly or not at *)
(* all: a chunk is never partly applied, and chunk i+1 is never committed  *)
(* before chunk i.                                                         *)
(***************************************************************************)
\* the keys written by the b-th committed batch of job j
BatchKeys(j, b) == {upserts[j][b].values[n].sku : n \in 1..Len(upserts[j][b].values)}

C28_CommittedChunksArePrefix ==
  LET file == csv_content[1]
      log == upserts[1]
  IN /\ \A b \in 1..Len(log) :
          LET c == log[b].chunk_start \div chunk_size
          IN /\ log[b].chunk_start % chunk_size = 0
             /\ BatchKeys(1, b) = KeysIn(file, c)
             /\ Len(log[b].values) = Cardinality(KeysIn(file, c))
             /\ b > 1 => log[b - 1].chunk_start < log[b].chunk_start
             /\ \A c2 \in 0..(c - 1) :
                  KeysIn(file, c2) # {} =>
                    \E b2 \in 1..(b - 1) : log[b2].chunk_start = c2 * chunk_size
             /\ \A k \in BatchKeys(1, b) :
                  k \in DOMAIN products /\ products[k].updated_at >= log[b].at
     /\ DOMAIN products = UNION {BatchKeys(1, b) : b \in 1..Len(log)}

\* the first chunk is in the store, the second failed and left nothing
C28_Witness ==
  /\ pc[1] \in {"failed", "crashed"}
  /\ Len(upserts[1]) = 1
  /\ upserts[1][1].chunk_start = 0
  /\ \E k \in KeysIn(csv_content[1], 1) : k \notin DOMAIN products
  /\ \A k \in KeysIn(csv_content[1], 0) : k \in DOMAIN products

(***************************************************************************)
(* C29. With several jobs running and being polled concurrently, the       *)
(* orchestrator and the progress queries of one job write only that job's  *)
(* ImportJob row and that job's task:<id> cache key; another job's status, *)
(* counters and snapshot are never changed by them.                        *)
(***************************************************************************)
\* the step is one of job j's orchestrator or of a progress query for j
StepOf(j) == pc'[j] # pc[j] \/ poll_pc'[j] # poll_pc[j]

C29_JobsIsolated ==
  [][\A j, k \in JobIds :
       (j # k /\ StepOf(j)) =>
         /\ import_jobs'[k] = import_jobs[k]
         /\ redis'[TaskKey(k)] = redis[TaskKey(k)]
         /\ redis'[CancelKey(k)] = redis[CancelKey(k)]
         /\ imported_count'[k] = imported_count[k]
         /\ chunk_start'[k] = chunk_start[k]
         /\ published'[k] = published[k]
         /\ poll_resp'[k] = poll_resp[k]]_vars

\* both jobs have ended differently and each was polled afterwards
C29_Witness ==
  /\ pc[1] = "succeeded" /\ pc[2] = "failed"
  /\ import_jobs[1].status = "SUCCESS" /\ import_jobs[2].status = "FAILURE"
  /\ poll_pc[1] = "idle" /\ poll_pc[2] = "idle"
  /\ poll_resp[1] = redis[TaskKey(1)] /\ poll_resp[2] = redis[TaskKey(2)]
  /\ Get(poll_resp[1], "state", "") = "SUCCESS"
  /\ Get(poll_resp[2], "state", "") = "FAILURE"

(***************************************************************************)
(* C30. Whenever the snapshot stored for a job has a terminal state        *)
(* (SUCCESS, FAILURE or CANCELLED) and the job's row exists, the durable   *)
(* ImportJob status is either that same terminal state or becomes it       *)
(* after the next progress query: a progress query that completes while    *)
(* the stored snapshot is terminal leaves the row with the snapshot's      *)
(* state, under every interleaving of the poll with the orchestrator's     *)
(* final steps.                                                            *)
(***************************************************************************)
C30_PollLeavesTerminalStatus ==
  [][(/\ poll_pc[1] = "got" /\ poll_pc'[1] = "idle"
      /\ import_jobs[1] # None
      /\ Get(redis[TaskKey(1)], "state", "") \in Terminal)
     => import_jobs'[1].status = redis[TaskKey(1)].state]_vars

(***************************************************************************)
(* C31. Every progress query response, from the snapshot or from the       *)
(* ImportJob fallback, satisfies 0 <= progress_percent <= 100, and         *)
(* whenever it carries current and total it satisfies                      *)
(* 0 <= current <= total; the durable ImportJob always satisfies           *)
(* records_processed <= total_records.                                     *)
(* As stated (every response carries a progress_percent in range) it does  *)
(* not hold: C31_EveryResponseHasPercent. It holds for the responses that  *)
(* carry a progress_percent: C31_ViewsInRange.                             *)
(***************************************************************************)
\* current and total of a response, where it carries both, are ordered
CountsOrdered(r) ==
  ({"current", "total"} \subseteq DOMAIN r) => (0 <= r.current /\ r.current <= r.total)

\* the row of job j, where it exists, has processed no more than its total
RowOrdered(j) ==
  import_jobs[j] # None => import_jobs[j].records_processed <= import_jobs[j].total_records

====
